---- MODULE Spec2Model ----
(***************************************************************************)
(* A model of the halide path tracer's bookkeeping: the Renderer           *)
(* (raytracer/src/renderer.rs) with its accumulation and output buffers    *)
(* and its frame counter, the Camera (raytracer/src/camera.rs) with its    *)
(* orientation basis and its cache of ray directions, the Scene            *)
(* (raytracer/src/scene.rs) with its registries, the trace of a pixel      *)
(* (RenderFrame), the tasks of the parallel phases of a render, the       *)
(* threads that share a camera and the Halton sampler                      *)
(* (raytracer/src/halton.rs).                                              *)
(*                                                                         *)
(* Abstractions, each stated where it is used:                             *)
(*  - a colour (Vec3) is a triple of integers in tenths, so that           *)
(*    SKY_COLOR = (0.6, 0.7, 0.9) is <<6, 7, 9>>;                          *)
(*  - the radiance per_pixel returns for one ray in one frame is black or  *)
(*    SKY_COLOR; which one is the caller's scene and the thread rng, so it *)
(*    is an input of the render actions;                                   *)
(*  - frame_count is an f32 in the code: it holds every integer up to      *)
(*    2^24 exactly and `+= 1.` leaves 2^24 unchanged (round to even);      *)
(*  - directions and positions are integer vectors, orientation vectors    *)
(*    are the six signed axes, turns are quarter turns;                    *)
(*  - the array compute_ray_directions stores is kept as the inputs it     *)
(*    was computed from (look direction, vertical fov, width, height);     *)
(*    its length is width * height and element i is a function of those    *)
(*    inputs and of i;                                                     *)
(*  - a value of the Halton sampler is the sequence of its digits in the   *)
(*    base of its generator; the counter is rounded as `as f32` rounds it. *)
(***************************************************************************)
EXTENDS Integers, Sequences, FiniteSets, TLC

VARIABLES
    \* Renderer (renderer.rs:11-19)
    image_data, accumulation, frame_count, width, height, use_accumulation, pool,
    \* Camera (camera.rs:6-16)
    position, look_direction, right_direction, up_direction, vertical_fov,
    camera_width, camera_height, look_clip, cached_directions,
    \* history: the last call made and what it returned, the frames rendered
    \* since the accumulation was last cleared, the samples drawn from a
    \* jitter sampler by the camera
    op, frames_rendered, jitter_draws,
    \* Scene (scene.rs:3-7), and the handles its add calls have returned
    spheres, materials, issued,
    \* the trace of one pixel: where RenderFrame::ray_color stands
    trace,
    \* a call of render_accumulate whose parallel phases are run task by task
    par,
    \* the threads that ask the camera for its directions, and the RwLock
    \* around the cached directions
    callers, lock,
    \* the Halton sampler a caller holds (halton.rs:1-4, 48)
    sampler

renderer_vars == <<image_data, accumulation, frame_count, width, height,
                   use_accumulation, pool>>
camera_vars == <<position, look_direction, right_direction, up_direction,
                 vertical_fov, camera_width, camera_height, look_clip,
                 cached_directions>>
vars == <<image_data, accumulation, frame_count, width, height, use_accumulation,
          pool, position, look_direction, right_direction, up_direction,
          vertical_fov, camera_width, camera_height, look_clip, cached_directions,
          op, frames_rendered, jitter_draws, spheres, materials, issued, trace,
          par, callers, lock, sampler>>
scene_vars == <<spheres, materials, issued>>
worker_vars == <<trace, par, callers, lock>>

----------------------------------------------------------------------------
(* Bounds of the model *)

\* most pixels of an image given to Renderer::new, resize, set_size
MaxPixels == 2
\* largest `frames` argument of an ordinary render_accumulate call, and most
\* frames rendered on top of each other in ordinary calls before a reset
MaxFrames == 2
\* most relative_move steps the camera is away from where Camera::default
\* puts it
MaxMoves == 1
\* most entries of each registry of a Scene
MaxEntries == 2

----------------------------------------------------------------------------
(* Values *)

\* Vec3::ZERO as a colour
ZERO == <<0, 0, 0>>

\* const SKY_COLOR: Vec3 = Vec3::new(0.6, 0.7, 0.9), in tenths
SKY_COLOR == <<6, 7, 9>>

\* the largest integer up to which every integer is an f32: 2^24
F32_EXACT == 16777216

\* the image sizes the model uses
Dims == {d \in (1..MaxPixels) \X (1..2) : d[1] * d[2] <= MaxPixels}

\* the thread counts the model gives to set_num_threads (0, which asks for
\* the builder's default, is what Renderer::new builds)
ThreadArgs == {1}

Min(a, b) == IF a <= b THEN a ELSE b

\* Option<T>: None is the empty sequence, Some(x) is <<x>>
None == <<>>
Some(x) == <<x>>

\* a Vec of n copies of v
Repeat(v, n) == [i \in 1..n |-> v]

\* Vec::resize(new_len, value): truncates, or extends with value; the
\* elements already there are kept
VecResize(v, new_len, value) ==
    IF new_len <= Len(v) THEN SubSeq(v, 1, new_len)
    ELSE v \o Repeat(value, new_len - Len(v))

\* Vec::truncate(0)
VecTruncate0(v) == <<>>

\* one `self.frame_count += 1.` on an f32 holding a non-negative integer
F32Inc(x) == IF x >= F32_EXACT THEN x ELSE x + 1

\* n times F32Inc, in closed form
F32IncTimes(x, n) == IF x + n >= F32_EXACT THEN (IF x >= F32_EXACT THEN x ELSE F32_EXACT) ELSE x + n

----------------------------------------------------------------------------
(* util.rs: packing a colour into a pixel *)

\* a scalar quotient n / d that has not been evaluated; d = 0 is a division
\* by zero
Quot(n, d) == [n |-> n, d |-> d]

\* `(c.clamp(0, 1) * 255.) as u32` for one channel c = n / d with d >= 0.
\* 0 / 0 is NaN: whichever operand clamp keeps, the cast gives 0 or the
\* clamp gives 0. n / 0 with n > 0 is +inf and clamps to 1. A negative
\* value, -inf included, clamps to 0.
Channel_unclamped(c) == IF c.d = 0 THEN 0 ELSE (255 * c.n) \div c.d
Channel(c) ==
    IF c.n < 0 THEN 0
    ELSE IF c.d = 0 THEN (IF c.n = 0 THEN 0 ELSE 255)
    ELSE IF c.n >= c.d THEN 255
    ELSE (255 * c.n) \div c.d

\* a u32 word by its bytes, least significant first: U32(b0, b1, b2, b3) is
\* b3 << 24 | b2 << 16 | b1 << 8 | b0
U32(b0, b1, b2, b3) == <<b0, b1, b2, b3>>

\* the u32 0
U32Zero == U32(0, 0, 0, 0)

\* color_rgba(c): a << 24 | b << 16 | g << 8 | r
color_rgba(c) ==
    LET r == Channel(c[1])
        g == Channel(c[2])
        b == Channel(c[3])
        a == Channel(c[4])
    IN  U32(r, g, b, a)

\* color_rgb(c) = color_rgba(&c.extend(1.))
color_rgb(c) == color_rgba(<<c[1], c[2], c[3], Quot(1, 1)>>)

\* `*acc / frame_count` for a colour in tenths
VecDiv(acc, fc) == <<Quot(acc[1], 10 * fc), Quot(acc[2], 10 * fc), Quot(acc[3], 10 * fc)>>

\* k frames of SKY_COLOR added to a colour
AddSky(acc, k) == <<acc[1] + k * SKY_COLOR[1], acc[2] + k * SKY_COLOR[2], acc[3] + k * SKY_COLOR[3]>>

----------------------------------------------------------------------------
(* renderer.rs: the Renderer as a value, and its methods as functions *)

\* the Renderer the variables hold
Self == [image_data |-> image_data, accumulation |-> accumulation,
         frame_count |-> frame_count, width |-> width, height |-> height,
         use_accumulation |-> use_accumulation, pool |-> pool]

\* Renderer::new(width, height)
new(w, h) ==
    [image_data |-> <<>>,
     accumulation |-> VecResize(<<>>, w * h, ZERO),
     frame_count |-> 0, width |-> w, height |-> h,
     use_accumulation |-> TRUE, pool |-> 0]

image_len(s) == s.width * s.height

\* a reset_accumulation that resizes without truncating first: the sums stay
reset_accumulation_no_truncate(s) ==
    [s EXCEPT !.accumulation = VecResize(s.accumulation, image_len(s), ZERO),
              !.frame_count = 0]

\* Renderer::reset_accumulation
reset_accumulation(s) ==
    [s EXCEPT !.accumulation = VecResize(VecTruncate0(s.accumulation), image_len(s), ZERO),
              !.frame_count = 0]

\* a resize that forgets the output buffer
resize_keeps_output(s, w, h) ==
    IF <<s.width, s.height>> # <<w, h>>
    THEN reset_accumulation([s EXCEPT !.width = w, !.height = h])
    ELSE s

\* a resize that forgets to reset the accumulation
resize_no_reset(s, w, h) ==
    IF <<s.width, s.height>> # <<w, h>>
    THEN LET s1 == [s EXCEPT !.width = w, !.height = h]
         IN  [s1 EXCEPT !.image_data = VecResize(VecTruncate0(s1.image_data), image_len(s1), U32Zero)]
    ELSE s

\* Renderer::resize
resize(s, w, h) ==
    IF <<s.width, s.height>> # <<w, h>>
    THEN LET s1 == [s EXCEPT !.width = w, !.height = h]
             s2 == reset_accumulation(s1)
         IN  [s2 EXCEPT !.image_data = VecResize(VecTruncate0(s2.image_data), image_len(s2), U32Zero)]
    ELSE s

\* rayon::ThreadPoolBuilder::num_threads(n).build(): Ok(pool) when the
\* operating system spawns the threads, Err(ThreadPoolBuildError) when it
\* does not. The pool is kept as the thread count given to its builder, 0
\* being the builder's default.
build(num_threads, spawned) ==
    IF spawned THEN [kind |-> "Ok", pool |-> num_threads] ELSE [kind |-> "Err"]

\* Renderer::set_num_threads: the renderer after the call, and how the call
\* ends. `.unwrap()` panics on Err, before self.pool is assigned.
set_num_threads(s, num_threads, spawned) ==
    LET built == build(num_threads, spawned)
    IN  IF built.kind = "Ok"
        THEN [self |-> [s EXCEPT !.pool = built.pool], ret |-> "returned"]
        ELSE [self |-> s, ret |-> "panicked"]

\* the state in which render_accumulate starts its frames (lines 82-87)
render_prepare(s) ==
    LET s0 == IF ~s.use_accumulation THEN reset_accumulation(s) ELSE s
    IN  [s0 EXCEPT !.image_data = VecResize(s0.image_data, image_len(s0), U32Zero),
                   !.accumulation = VecResize(s0.accumulation, image_len(s0), ZERO)]

\* the slots the zip of the accumulation with the rays pairs up (line 103):
\* as many as the shorter of the two
zipped(s, n_rays) == Min(Len(s.accumulation), n_rays)

\* the frames of render_accumulate (lines 89-109), with n_rays rays per frame;
\* sky[i] is the number of frames in which per_pixel returned SKY_COLOR for
\* slot i, black in the other frames
render_frames(s, n_rays, frames, sky) ==
    [s EXCEPT !.frame_count = F32IncTimes(s.frame_count, frames),
              !.image_data = VecResize(s.image_data, image_len(s), U32Zero),
              !.accumulation = [i \in 1..Len(s.accumulation) |->
                                  IF frames > 0 /\ i <= zipped(s, n_rays)
                                  THEN AddSky(s.accumulation[i], sky[i])
                                  ELSE s.accumulation[i]]]

\* the averaging of render_accumulate (lines 111-118)
render_average(s) ==
    [s EXCEPT !.image_data = [i \in 1..Min(Len(s.accumulation), Len(s.image_data)) |->
                                color_rgb(VecDiv(s.accumulation[i], s.frame_count))]]

\* Renderer::render_accumulate
render_accumulate(s, n_rays, frames, sky) ==
    render_average(render_frames(render_prepare(s), n_rays, frames, sky))

----------------------------------------------------------------------------
(* Vectors (glam::Vec3 restricted to integer components) *)

Add(a, b) == <<a[1] + b[1], a[2] + b[2], a[3] + b[3]>>
Scale(k, a) == <<k * a[1], k * a[2], k * a[3]>>
Neg(a) == Scale(-1, a)
Dot(a, b) == a[1] * b[1] + a[2] * b[2] + a[3] * b[3]
Cross(a, b) == <<a[2] * b[3] - a[3] * b[2], a[3] * b[1] - a[1] * b[3], a[1] * b[2] - a[2] * b[1]>>
Sgn(x) == IF x > 0 THEN 1 ELSE IF x < 0 THEN -1 ELSE 0

\* the six signed axes
Axes == {<<1, 0, 0>>, <<-1, 0, 0>>, <<0, 1, 0>>, <<0, -1, 0>>, <<0, 0, 1>>, <<0, 0, -1>>}

\* an f32 vector given by a caller: integer components v, and whether one of
\* its components is NaN ("nan") or infinite ("inf") instead
F32Vec(v, nonfinite) == [v |-> v, nonfinite |-> nonfinite]

\* Vec3::length_recip, by the class of its result
length_recip(a) ==
    IF a.nonfinite = "nan" THEN "nan"
    ELSE IF a.nonfinite = "inf" THEN "zero"
    ELSE IF a.v = <<0, 0, 0>> THEN "inf"
    ELSE "positive"

\* a try_normalize that rejects nothing, as Vec3::normalize does
normalize_unchecked(a) == Some(<<Sgn(a.v[1]), Sgn(a.v[2]), Sgn(a.v[3])>>)

\* Vec3::try_normalize: None unless length_recip is finite and > 0. Only
\* multiples of an axis are given, whose unit vector is the signed axis.
try_normalize(a) ==
    IF length_recip(a) = "positive"
    THEN Some(<<Sgn(a.v[1]), Sgn(a.v[2]), Sgn(a.v[3])>>)
    ELSE None

\* cosine and sine of k quarter turns
QCos(k) == CASE k % 4 = 0 -> 1 [] k % 4 = 1 -> 0 [] k % 4 = 2 -> -1 [] OTHER -> 0
QSin(k) == CASE k % 4 = 0 -> 0 [] k % 4 = 1 -> 1 [] k % 4 = 2 -> 0 [] OTHER -> -1

\* Quat::from_axis_angle(axis, k quarter turns) * v, for a unit axis
\* (Rodrigues' formula)
Rotate(axis, k, v) ==
    Add(Add(Scale(QCos(k), v), Scale(QSin(k), Cross(axis, v))),
        Scale(Dot(axis, v) * (1 - QCos(k)), axis))

----------------------------------------------------------------------------
(* camera.rs: the Camera as a value, and its methods as functions *)

\* const MOVE_SPEED: f32 = 2.
MOVE_SPEED == 2

\* the Camera the variables hold
CameraSelf == [position |-> position, look_direction |-> look_direction,
               right_direction |-> right_direction, up_direction |-> up_direction,
               vertical_fov |-> vertical_fov, width |-> camera_width,
               height |-> camera_height, look_clip |-> look_clip,
               cached_directions |-> cached_directions]

\* Camera::default; the clip range is in hundredths
default ==
    [position |-> <<0, 0, 3>>, look_direction |-> <<0, 0, -1>>,
     right_direction |-> <<1, 0, 0>>, up_direction |-> <<0, 1, 0>>,
     vertical_fov |-> 25, width |-> 640, height |-> 480,
     look_clip |-> [start |-> 1, end |-> 10000],
     cached_directions |-> None]

\* Camera::clear_ray_cache
clear_ray_cache(c) == [c EXCEPT !.cached_directions = None]

\* Camera::set_position
set_position(c, p) == [c EXCEPT !.position = p]

\* Camera::relative_move; ts is the time step
relative_move(c, offset, ts) ==
    LET rotated == Add(Add(Scale(offset[1], c.right_direction),
                           Scale(offset[2], c.up_direction)),
                       Scale(offset[3], c.look_direction))
    IN  clear_ray_cache([c EXCEPT !.position = Add(c.position, Scale(MOVE_SPEED * ts, rotated))])

\* Camera::relative_turn; pitch and yaw are the angles pitch * scale and
\* yaw * scale of the code, in quarter turns. q * v turns v about the up
\* direction first and about the right direction then.
relative_turn(c, pitch, yaw) ==
    LET q(v) == Rotate(c.right_direction, pitch, Rotate(c.up_direction, yaw, v))
    IN  clear_ray_cache([c EXCEPT !.look_direction = q(c.look_direction),
                                  !.right_direction = q(c.right_direction),
                                  !.up_direction = q(c.up_direction)])

\* Camera::set_look_direction
set_look_direction(c, look) ==
    LET n == try_normalize(look)
    IN  IF n # None /\ n[1] # c.look_direction
        THEN clear_ray_cache([c EXCEPT !.look_direction = n[1]])
        ELSE c

\* Camera::set_vertical_fov
set_vertical_fov(c, fov) ==
    IF c.vertical_fov # fov
    THEN clear_ray_cache([c EXCEPT !.vertical_fov = fov])
    ELSE c

\* Camera::set_size
set_size_keeps_cache(c, w, h) == [c EXCEPT !.width = w, !.height = h]
set_size(c, w, h) ==
    IF c.width # w \/ c.height # h
    THEN clear_ray_cache([c EXCEPT !.width = w, !.height = h])
    ELSE c

\* Camera::set_look_clip
set_look_clip(c, clip) == [c EXCEPT !.look_clip = clip]

\* Camera::compute_ray_directions. The array is kept as what determines it:
\* the look direction, the vertical fov and the size. The position drops out
\* (a direction is extended with w = 0 before view_inverse is applied) and so
\* does the clip range (the unprojected target is normalized).
compute_ray_directions(c) ==
    [c EXCEPT !.cached_directions =
        Some([look |-> c.look_direction, fov |-> c.vertical_fov,
              width |-> c.width, height |-> c.height])]

\* Camera::map_ray_directions, up to the read guard it returns: the camera
\* with its cache filled
map_ray_directions(c) ==
    IF c.cached_directions = None THEN compute_ray_directions(c) ELSE c

\* the array Camera::get_ray_directions returns
get_ray_directions(c) == map_ray_directions(c).cached_directions[1]

\* the length of an array of directions
dirs_len(d) == d.width * d.height

----------------------------------------------------------------------------
(* scene.rs: the Scene as a value, and its methods as functions *)

\* what a lookup that panics gives instead of an entry
Panic == [kind |-> "Panic"]

\* Vec3::ONE as a colour factor
ONE == <<1, 1, 1>>

\* Material. A registry entry is kept with the variant callers register
\* (material.rs:5-8: Null, Lambertian) and with the fields ray_color reads of
\* it (scene.rs:81-85: albedo, roughness). Null absorbs: its albedo is zero.
Null == [kind |-> "Null", albedo |-> ZERO, roughness |-> 0]
Lambertian(albedo, roughness) ==
    [kind |-> "Lambertian", albedo |-> albedo, roughness |-> roughness]

\* Sphere
Sphere(center, radius, material_index) ==
    [center |-> center, radius |-> radius, material_index |-> material_index]

\* the Scene the variables hold
SceneSelf == [spheres |-> spheres, materials |-> materials]

\* Scene::default
scene_default == [spheres |-> <<>>, materials |-> <<>>]

\* Scene::sphere(idx): &self.spheres[idx], which panics past the end
sphere(sc, idx) ==
    IF idx < Len(sc.spheres) THEN sc.spheres[idx + 1] ELSE Panic

\* a lookup that clamps the index to the registry instead of panicking
material_clamped(sc, idx) ==
    IF idx < Len(sc.materials) THEN sc.materials[idx + 1]
    ELSE IF Len(sc.materials) > 0 THEN sc.materials[1] ELSE Null

\* Scene::material(idx): &self.materials[idx], which panics past the end
material(sc, idx) ==
    IF idx < Len(sc.materials) THEN sc.materials[idx + 1] ELSE Panic

\* an add_sphere that inserts at the front of the registry
add_sphere_at_front(sc, s) ==
    LET pushed == <<s>> \o sc.spheres
    IN  [scene |-> [sc EXCEPT !.spheres = pushed], ret |-> Len(pushed) - 1]

\* Scene::add_sphere: the scene after the call, and the handle returned
add_sphere(sc, s) ==
    LET pushed == Append(sc.spheres, s)
    IN  [scene |-> [sc EXCEPT !.spheres = pushed], ret |-> Len(pushed) - 1]

\* Scene::add_material
add_material(sc, m) ==
    LET pushed == Append(sc.materials, m)
    IN  [scene |-> [sc EXCEPT !.materials = pushed], ret |-> Len(pushed) - 1]

----------------------------------------------------------------------------
(* renderer.rs: RenderFrame, the trace of one pixel *)

\* Distances along a ray and the coordinates of positions are integers; the
\* clip range is in hundredths. Rays run along the z axis, on which the
\* spheres of the model are centred, or leave it along the x axis.

\* Ray
Ray(origin, direction) == [origin |-> origin, direction |-> direction]

\* Range<f32>::contains for the clip range: start <= t < end
contains(clip, t) == clip.start <= 100 * t /\ 100 * t < clip.end

\* f32::sqrt, rounded down to an integer (exact on every discriminant of a
\* ray along the axis of the spheres, which is 4 * radius^2)
sqrt(n) == CHOOSE k \in 0..n : k * k <= n /\ n < (k + 1) * (k + 1)

Sub(a, b) == Add(a, Neg(b))
Mul(a, b) == <<a[1] * b[1], a[2] * b[2], a[3] * b[3]>>
VDiv(a, d) == <<a[1] \div d, a[2] \div d, a[3] \div d>>

\* Vec3::normalize of a multiple of an axis
normalize(v) == <<Sgn(v[1]), Sgn(v[2]), Sgn(v[3])>>

\* the quadratic trace_ray solves for one sphere (lines 174-182)
quadratic(s, ray) ==
    LET offset_center == Sub(ray.origin, s.center)
        a == Dot(ray.direction, ray.direction)
        b == 2 * Dot(ray.direction, offset_center)
        c == Dot(offset_center, offset_center) - s.radius * s.radius
    IN  [a |-> a, b |-> b, c |-> c, discrim |-> b * b - 4 * a * c]

\* the two roots of a quadratic with discrim >= 0
root0(q) == (-q.b - sqrt(q.discrim)) \div (2 * q.a)
root1(q) == (-q.b + sqrt(q.discrim)) \div (2 * q.a)

\* a per-sphere test that goes on to the larger root when the smaller one is
\* out of range, as Hittable::check_hit_sphere does (hittable.rs:59-64)
candidate_either_root(s, ray, clip) ==
    LET q == quadratic(s, ray)
    IN  IF q.discrim < 0 THEN None
        ELSE IF contains(clip, root0(q)) THEN Some(root0(q))
        ELSE IF contains(clip, root1(q)) THEN Some(root1(q))
        ELSE None

\* the hit trace_ray considers for one sphere (lines 184-189): the smaller
\* root, if it is in the clip range
candidate(s, ray, clip) ==
    LET q == quadratic(s, ray)
    IN  IF q.discrim < 0 THEN None
        ELSE IF contains(clip, root0(q)) THEN Some(root0(q))
        ELSE None

\* a scan that keeps the last sphere hit instead of the nearest
RECURSIVE closest_last(_, _, _, _, _)
closest_last(ss, ray, clip, index, closest) ==
    IF index >= Len(ss) THEN closest
    ELSE LET t0 == candidate(ss[index + 1], ray, clip)
         IN  closest_last(ss, ray, clip, index + 1,
                          IF t0 # None THEN Some(<<index, t0[1]>>) ELSE closest)

\* the scan of trace_ray (lines 171-201) from sphere `index` on: `closest` is
\* None or Some(<<index, t>>)
RECURSIVE closest_from(_, _, _, _, _)
closest_from(ss, ray, clip, index, closest) ==
    IF index >= Len(ss) THEN closest
    ELSE LET t0 == candidate(ss[index + 1], ray, clip)
             next == IF t0 = None THEN closest
                     ELSE IF closest # None /\ t0[1] < closest[1][2] THEN Some(<<index, t0[1]>>)
                     ELSE IF closest = None THEN Some(<<index, t0[1]>>)
                     ELSE closest
         IN  closest_from(ss, ray, clip, index + 1, next)

\* HitPayload (renderer.rs:129-137)
Miss == [kind |-> "Miss"]
Hit(world_normal, world_position, object_index) ==
    [kind |-> "Hit", world_normal |-> world_normal,
     world_position |-> world_position, object_index |-> object_index]

\* RenderFrame::on_hit
on_hit(sc, ray, object_index, hit_distance) ==
    LET s == sc.spheres[object_index + 1]
        hit_pos == Add(ray.origin, Scale(hit_distance, ray.direction))
    IN  Hit(normalize(Sub(hit_pos, s.center)), hit_pos, object_index)

\* RenderFrame::trace_ray
trace_ray(sc, clip, ray) ==
    LET closest == closest_from(sc.spheres, ray, clip, 0, None)
    IN  IF closest # None THEN on_hit(sc, ray, closest[1][1], closest[1][2])
        ELSE Miss

\* Vec3Ext::reflect(self, normal) for a normal given by a vector m of its
\* direction: rej = self - m (self . m) / (m . m), and self - 2 rej (the
\* doubling is done before the division, which is then exact)
reflect(self, m) ==
    LET rej_twice == Sub(Scale(2, self), VDiv(Scale(2 * Dot(self, m), m), Dot(m, m)))
    IN  Sub(self, rej_twice)

\* per_pixel gives ray_color a budget of 16
BOUNCE_BUDGET == 16

\* rng.gen::<Vec3>(), in halves: (0, 0, 0) and (0.5, 0, 0)
RngArgs == {<<0, 0, 0>>, <<1, 0, 0>>}

\* Material::scatter (material.rs:17-22): whether the material scatters
scatter(m) == IF m.kind = "Null" THEN None ELSE Some(m.albedo)

\* the trace of a pixel that is not being traced
TraceIdle ==
    [pc |-> "idle", ray |-> Ray(ZERO, ZERO), bounce_budget |-> 0, queries |-> 0,
     attenuation |-> ONE, color |-> ZERO, hit |-> Miss, material |-> None]

\* RenderFrame::per_pixel(ray): ray_color is entered with the whole budget
per_pixel(ray) ==
    [TraceIdle EXCEPT !.pc = "ray_color", !.ray = ray, !.bounce_budget = BOUNCE_BUDGET]

\* a budget used up that gives the sky colour
ray_color_exhausted_sky(tr) ==
    [tr EXCEPT !.pc = "done", !.color = Mul(SKY_COLOR, tr.attenuation)]

\* ray_color with no budget left (lines 148-149): black
ray_color_exhausted(tr) ==
    [tr EXCEPT !.pc = "done", !.color = Mul(ZERO, tr.attenuation)]

\* One level of RenderFrame::ray_color (lines 148-166). `attenuation` is the
\* product of the albedos the levels above multiply the result by on their
\* return (line 162); `queries` counts the calls of trace_ray; `hit` and
\* `material` are what the last call of trace_ray and the lookup after it
\* found. The offset of 0.0001 along the new direction (line 160) is below
\* the resolution of the positions.
ray_color(sc, clip, tr, rng) ==
    IF tr.bounce_budget = 0
    THEN ray_color_exhausted(tr)
    ELSE LET hit == trace_ray(sc, clip, tr.ray)
             asked == [tr EXCEPT !.queries = @ + 1, !.hit = hit, !.material = None]
         IN  IF hit.kind = "Miss"
             THEN [asked EXCEPT !.pc = "done", !.color = Mul(SKY_COLOR, tr.attenuation)]
             ELSE LET s == sphere(sc, hit.object_index)
                      m == material(sc, s.material_index)
                  IN  IF m.kind = "Panic" THEN [asked EXCEPT !.pc = "panicked"]
                      ELSE LET normal_offset == VDiv(Scale(m.roughness, rng), 2)
                               sum == Add(hit.world_normal, normal_offset)
                               reflection_normal == IF sum = ZERO THEN hit.world_normal ELSE sum
                               direction == reflect(Neg(tr.ray.direction), reflection_normal)
                           IN  [asked EXCEPT !.ray = Ray(hit.world_position, direction),
                                             !.bounce_budget = @ - 1,
                                             !.attenuation = Mul(@, m.albedo),
                                             !.material = Some(m)]

----------------------------------------------------------------------------
(* renderer.rs: the parallel phases of render_accumulate, task by task *)

\* the slot of each buffer that the zip of into_par_iter (lines 103-105 and
\* 113-115) hands to the task of item i: the i-th element of each side
zip_slot_shared(i) == 1
zip_slot(i) == i

\* a task of for_each: where it stands, the slot it was handed, the value
\* it has read of it and the number of sky contributions it is to add
Task(slot, add) == [pc |-> "load", slot |-> slot, local |-> ZERO, add |-> add]

\* no call of render_accumulate in progress. In a call: `frames` and
\* `frames_left` of the loop of line 89, the renderer as the call found it
\* (s0), the rays of a frame (n_rays), the sky contributions of the call so
\* far per slot (sky), the tasks of the phase under way and the frame_count
\* of line 111.
ParIdle ==
    [pc |-> "idle", frames |-> 0, frames_left |-> 0, s0 |-> None, n_rays |-> 0,
     sky |-> <<>>, tasks |-> <<>>, frame_count |-> 0]

----------------------------------------------------------------------------
(* camera.rs: the threads that call get_ray_directions, and the RwLock *)

\* most threads that call the camera at the same time
MaxCallers == 2
Threads == 1..MaxCallers

\* a thread that is not in a call. In a call: where it stands in
\* map_ray_directions, the array it has computed, whether it has computed
\* one, and the array the call returned.
CallerIdle == [pc |-> "idle", local |-> None, computed |-> FALSE, result |-> None]

\* RwLock::new: no reader, no writer (writer 0)
RwLockNew == [readers |-> {}, writer |-> 0]

\* RwLock::read can be granted: no writer holds the lock
can_read_always(lk) == TRUE
can_read(lk) == lk.writer = 0

\* RwLock::write can be granted: nobody holds the lock
can_write(lk) == lk.writer = 0 /\ lk.readers = {}

\* the Option behind the lock while `*dirs = Some(ray_directions)` is being
\* written: neither the old value nor the new one
Torn == Some([torn |-> TRUE])

----------------------------------------------------------------------------
(* halton.rs: the low-discrepancy sampler *)

\* most calls of next() a caller makes on the sampler it holds
MaxDraws == 9

\* The f32 that Halton::next returns is kept by its digits in the base of the
\* generator, first digit first: <<d1, d2, d3>> is d1/b + d2/b^2 + d3/b^3.
\* In the loop f is b^-j in round j, so `r += f * (i % b)` writes digit j and
\* no digit is written twice. The rounding of f and r to 24 bits is left out:
\* in base 2 there is none, in the other bases it is far below the 1e-3 of
\* the golden values. The rounding of the counter to 24 bits is kept (AsF32).

\* `x as f32` for a u32 x below 2^25: every integer up to 2^24 is an f32,
\* above it only the even ones are, and an odd one goes to the neighbour
\* whose mantissa is even (round to nearest, ties to even)
AsF32(x) ==
    IF x <= F32_EXACT THEN x
    ELSE IF x % 2 = 0 THEN x
    ELSE 4 * ((x + 1) \div 4)

\* struct Halton { base, index }
Halton(base, index) == [index |-> index, base |-> base]

\* Halton::new
Halton_new(base) == Halton(base, 1)

\* the loop of Halton::next (lines 38-42), from i on with the digits r
\* written so far
RECURSIVE next_loop(_, _, _)
next_loop(i, b, r) ==
    IF i > 0 THEN next_loop(i \div b, b, Append(r, i % b)) ELSE r

\* Halton::next: the generator after the call and the value in the Some
next(h) ==
    [self |-> [h EXCEPT !.index = h.index + 1],
     ret |-> next_loop(AsF32(h.index), AsF32(h.base), <<>>)]

\* n calls of next whose values are dropped (`let _ = iter.next()`), in
\* closed form
next_times(h, n) == [h EXCEPT !.index = h.index + n]

\* struct Halton2(Halton, Halton)
Halton2(h1, h2) == <<h1, h2>>

\* Halton2::next: both generators advance, the point is the pair
next2(h2) ==
    [self |-> Halton2(next(h2[1]).self, next(h2[2]).self),
     ret |-> <<next(h2[1]).ret, next(h2[2]).ret>>]

\* Halton::one_d: a new generator, base values drawn and dropped
one_d(base) == next_times(Halton_new(base), base)

\* Halton::two_d: two new generators, base1 * base2 points drawn and dropped
two_d(base1, base2) ==
    Halton2(next_times(Halton_new(base1), base1 * base2),
            next_times(Halton_new(base2), base1 * base2))

\* no sampler yet. A sampler a caller holds: which constructor made it, its
\* generators, the calls of next() made on them since Halton::new (the
\* dropped ones included) and the calls the caller has made.
NoSampler == [kind |-> "none", gens |-> <<>>, made |-> 0, returned |-> 0]

----------------------------------------------------------------------------
(* The state machine *)

SetRenderer(s) ==
    /\ image_data' = s.image_data
    /\ accumulation' = s.accumulation
    /\ frame_count' = s.frame_count
    /\ width' = s.width
    /\ height' = s.height
    /\ use_accumulation' = s.use_accumulation
    /\ pool' = s.pool

SetCamera(c) ==
    /\ position' = c.position
    /\ look_direction' = c.look_direction
    /\ right_direction' = c.right_direction
    /\ up_direction' = c.up_direction
    /\ vertical_fov' = c.vertical_fov
    /\ camera_width' = c.width
    /\ camera_height' = c.height
    /\ look_clip' = c.look_clip
    /\ cached_directions' = c.cached_directions

\* a call, as the history keeps it: the method, the arguments the model
\* keeps of it, and what it returned (<<>> when the model does not keep it)
CallRet(name, args, ret) == [ret |-> ret, name |-> name, args |-> args]
Call(name, args) == CallRet(name, args, <<>>)

\* After construction of everything but the Renderer: a Camera::default, a
\* Scene::default, nothing under way
OthersInit ==
    /\ frames_rendered = 0
    /\ jitter_draws = 0
    /\ position = default.position
    /\ look_direction = default.look_direction
    /\ right_direction = default.right_direction
    /\ up_direction = default.up_direction
    /\ vertical_fov = default.vertical_fov
    /\ camera_width = default.width
    /\ camera_height = default.height
    /\ look_clip = default.look_clip
    /\ cached_directions = default.cached_directions
    /\ spheres = scene_default.spheres
    /\ materials = scene_default.materials
    /\ issued = [spheres |-> <<>>, materials |-> <<>>]
    /\ trace = TraceIdle
    /\ par = ParIdle
    /\ callers = [t \in Threads |-> CallerIdle]
    /\ lock = RwLockNew
    /\ sampler = NoSampler

\* After construction: a Renderer::new of any size and a Camera::default
Init ==
    /\ \E d \in Dims :
          LET s == new(d[1], d[2])
          IN  /\ image_data = s.image_data
              /\ accumulation = s.accumulation
              /\ frame_count = s.frame_count
              /\ width = s.width
              /\ height = s.height
              /\ use_accumulation = s.use_accumulation
              /\ pool = s.pool
              /\ op = Call("new", d)
    /\ OthersInit

(* Renderer calls *)

\* renderer.resize(w, h)
Resize(w, h) ==
    /\ SetRenderer(resize(Self, w, h))
    /\ frames_rendered' = IF <<width, height>> # <<w, h>> THEN 0 ELSE frames_rendered
    /\ op' = Call("resize", <<w, h>>)
    /\ UNCHANGED <<camera_vars, jitter_draws, sampler, scene_vars, worker_vars>>

\* renderer.reset_accumulation()
ResetAccumulation ==
    /\ SetRenderer(reset_accumulation(Self))
    /\ frames_rendered' = 0
    /\ op' = Call("reset_accumulation", <<>>)
    /\ UNCHANGED <<camera_vars, jitter_draws, sampler, scene_vars, worker_vars>>

\* renderer.use_accumulation = b (a public field)
SetUseAccumulation(b) ==
    /\ SetRenderer([Self EXCEPT !.use_accumulation = b])
    /\ op' = Call("use_accumulation", <<b>>)
    /\ UNCHANGED <<camera_vars, frames_rendered, jitter_draws, sampler, scene_vars, worker_vars>>

\* renderer.set_num_threads(n), the threads being spawned or not. A caller
\* that catches the unwinding of a panic goes on with the renderer.
SetNumThreads(n, spawned) ==
    /\ SetRenderer(set_num_threads(Self, n, spawned).self)
    /\ op' = CallRet("set_num_threads", <<n, spawned>>, set_num_threads(Self, n, spawned).ret)
    /\ UNCHANGED <<camera_vars, frames_rendered, jitter_draws, sampler, scene_vars, worker_vars>>

\* the `frames` arguments: the ordinary ones, and one that is one frame longer
\* than the f32 counter is exact
FrameArgs == (0..MaxFrames) \cup {F32_EXACT + 1}

\* the frames rendered on top of each other once `frames` more are
FramesAfter(frames) == (IF use_accumulation THEN frames_rendered ELSE 0) + frames

\* the radiance inputs of a call over m slots: any number of sky frames per
\* slot in a short run, black throughout in a long one
SkyChoices(m, frames) ==
    IF FramesAfter(frames) <= MaxFrames THEN [1..m -> 0..frames] ELSE [1..m -> {0}]

\* the body of a call of render_accumulate on the camera of the model: each
\* frame asks the camera for its directions (line 92)
RenderCall(name, frames) ==
    LET c1 == IF frames > 0 THEN map_ray_directions(CameraSelf) ELSE CameraSelf
        n_rays == IF frames > 0 THEN dirs_len(get_ray_directions(CameraSelf)) ELSE 0
        m == zipped(render_prepare(Self), n_rays)
    IN  /\ FramesAfter(frames) <= MaxFrames
           \/ (FramesAfter(frames) > F32_EXACT /\ FramesAfter(frames) <= F32_EXACT + 1 + MaxFrames)
        /\ \E sky \in SkyChoices(m, frames) :
              /\ SetRenderer(render_accumulate(Self, n_rays, frames, sky))
              /\ op' = Call(name, <<frames, sky>>)
        /\ SetCamera(c1)
        /\ frames_rendered' = FramesAfter(frames)
        /\ UNCHANGED <<jitter_draws, sampler, scene_vars, worker_vars>>

\* renderer.render_accumulate(scene, camera, frames)
RenderAccumulate(frames) == RenderCall("render_accumulate", frames)

\* renderer.render(scene, camera) = self.render_accumulate(scene, camera, 1)
Render == RenderCall("render", 1)

(* Camera calls *)

CameraCall(call, c) ==
    /\ SetCamera(c)
    /\ op' = call
    /\ UNCHANGED <<renderer_vars, frames_rendered, jitter_draws, sampler, scene_vars, worker_vars>>

\* the arguments the model gives to the camera
PositionArgs == {<<0, 0, 3>>, <<0, 1, 4>>}
LookArgs == {F32Vec(<<0, 0, -2>>, "no"), F32Vec(<<3, 0, 0>>, "no"),
             F32Vec(<<0, 0, 1>>, "no"),
             F32Vec(<<0, 0, 0>>, "no"), F32Vec(<<0, 1, 0>>, "nan"),
             F32Vec(<<0, 1, 0>>, "inf")}
FovArgs == {25, 45}
SizeArgs == {<<640, 480>>, <<2, 1>>}
TurnArgs == {0, 1}

\* |a - b| summed over the components
Abs(x) == IF x < 0 THEN -x ELSE x
Dist1(a, b) == Abs(a[1] - b[1]) + Abs(a[2] - b[2]) + Abs(a[3] - b[3])

\* camera.set_position(p)
SetPosition(p) == CameraCall(Call("set_position", <<>>), set_position(CameraSelf, p))

\* camera.relative_move(offset, ts)
RelativeMove(offset, ts) ==
    LET c == relative_move(CameraSelf, offset, ts)
    IN  /\ Dist1(c.position, default.position) <= MOVE_SPEED * MaxMoves
        /\ CameraCall(Call("relative_move", <<>>), c)

\* camera.relative_turn([pitch, yaw], ts)
RelativeTurn(pitch, yaw) ==
    CameraCall(Call("relative_turn", <<>>), relative_turn(CameraSelf, pitch, yaw))

\* camera.set_look_direction(look)
SetLookDirection(look) ==
    CameraCall(Call("set_look_direction", <<look>>), set_look_direction(CameraSelf, look))

\* camera.set_vertical_fov(fov)
SetVerticalFov(fov) ==
    CameraCall(Call("set_vertical_fov", <<>>), set_vertical_fov(CameraSelf, fov))

\* camera.set_size(w, h)
SetSize(w, h) == CameraCall(Call("set_size", <<>>), set_size(CameraSelf, w, h))

\* camera.get_ray_directions()
GetRayDirections ==
    CameraCall(CallRet("get_ray_directions", <<>>, get_ray_directions(CameraSelf)),
               map_ray_directions(CameraSelf))

\* What a caller of the renderer does
Next ==
    \/ \E d \in Dims : Resize(d[1], d[2])
    \/ ResetAccumulation
    \/ \E b \in BOOLEAN : SetUseAccumulation(b)
    \/ \E n \in ThreadArgs, spawned \in BOOLEAN : SetNumThreads(n, spawned)
    \/ \E frames \in FrameArgs : RenderAccumulate(frames)
    \/ Render
    \/ \E d \in Dims : SetSize(d[1], d[2])

Spec == Init /\ [][Next]_vars

\* What a caller of the camera does
CameraNext ==
    \/ \E p \in PositionArgs : SetPosition(p)
    \/ \E offset \in Axes, ts \in 0..1 : RelativeMove(offset, ts)
    \/ \E pitch \in TurnArgs, yaw \in TurnArgs : RelativeTurn(pitch, yaw)
    \/ \E look \in LookArgs : SetLookDirection(look)
    \/ \E fov \in FovArgs : SetVerticalFov(fov)
    \/ \E d \in SizeArgs : SetSize(d[1], d[2])
    \/ GetRayDirections

\* the camera of an application whose renderer is one pixel large and idle
CameraInit == Init /\ width = 1 /\ height = 1

CameraSpec == CameraInit /\ [][CameraNext]_vars


(* Scene calls *)

\* the entries the model registers. The camera of Camera::default stands at
\* z = 3 and looks down the z axis: the first three spheres are in front of
\* it, the fourth is behind it and the fifth is around it.
SphereArgs == {Sphere(<<0, 0, 0>>, 1, 0), Sphere(<<0, 0, -1>>, 2, 1),
               Sphere(<<0, 0, -3>>, 1, 0), Sphere(<<0, 0, 6>>, 1, 1),
               Sphere(<<0, 0, 3>>, 1, 1)}
MaterialArgs == {Null, Lambertian(ONE, 0), Lambertian(<<1, 0, 0>>, 2)}

\* no pixel is being traced
TraceAtRest == trace.pc \in {"idle", "done", "panicked"}

\* scene.add_sphere(s)
AddSphere(s) ==
    LET r == add_sphere(SceneSelf, s)
    IN  /\ TraceAtRest
        /\ Len(spheres) < MaxEntries
        /\ spheres' = r.scene.spheres
        /\ materials' = r.scene.materials
        /\ issued' = [issued EXCEPT !.spheres = Append(@, [handle |-> r.ret, entry |-> s])]
        /\ op' = CallRet("add_sphere", <<s>>, r.ret)
        /\ UNCHANGED <<renderer_vars, camera_vars, frames_rendered, jitter_draws, sampler, worker_vars>>

\* scene.add_material(m)
AddMaterial(m) ==
    LET r == add_material(SceneSelf, m)
    IN  /\ TraceAtRest
        /\ Len(materials) < MaxEntries
        /\ spheres' = r.scene.spheres
        /\ materials' = r.scene.materials
        /\ issued' = [issued EXCEPT !.materials = Append(@, [handle |-> r.ret, entry |-> m])]
        /\ op' = CallRet("add_material", <<m>>, r.ret)
        /\ UNCHANGED <<renderer_vars, camera_vars, frames_rendered, jitter_draws, sampler, worker_vars>>

\* What a caller of the scene does
SceneNext ==
    \/ \E s \in SphereArgs : AddSphere(s)
    \/ \E m \in MaterialArgs : AddMaterial(m)

SceneSpec == Init /\ [][SceneNext]_vars

(* The trace of a pixel *)

\* the directions of the rays the model traces from the camera's position
RayDirections == {<<0, 0, -1>>, <<0, 0, 1>>}

\* ctx.per_pixel(ray) is called
StartTrace(direction) ==
    /\ TraceAtRest
    /\ trace' = per_pixel(Ray(position, direction))
    /\ op' = Call("per_pixel", <<direction>>)
    /\ UNCHANGED <<renderer_vars, camera_vars, frames_rendered, jitter_draws, sampler,
                   scene_vars, par, callers, lock>>

\* ray_color runs one level
RayColor(rng) ==
    /\ trace.pc = "ray_color"
    /\ trace' = ray_color(SceneSelf, look_clip, trace, rng)
    /\ UNCHANGED <<renderer_vars, camera_vars, frames_rendered, jitter_draws, sampler,
                   scene_vars, par, callers, lock, op>>

\* What the tracing of pixels in a scene does
TraceNext ==
    \/ \E s \in SphereArgs : AddSphere(s)
    \/ \E m \in MaterialArgs : AddMaterial(m)
    \/ \E direction \in RayDirections : StartTrace(direction)
    \/ \E rng \in RngArgs : RayColor(rng)

\* the scene and the pixels of an application whose renderer is one pixel
\* large and idle
TraceInit == Init /\ width = 1 /\ height = 1

TraceSpec == TraceInit /\ [][TraceNext]_vars

(* The parallel phases of render_accumulate *)

\* render_accumulate(scene, camera, frames) is entered (lines 80-87)
ParBegin(frames) ==
    /\ par.pc = "idle"
    /\ FramesAfter(frames) <= MaxFrames
    /\ SetRenderer(render_prepare(Self))
    /\ par' = [ParIdle EXCEPT !.pc = "loop", !.frames = frames, !.frames_left = frames,
                              !.s0 = Self, !.sky = [i \in 1..image_len(Self) |-> 0]]
    /\ UNCHANGED <<camera_vars, op, frames_rendered, jitter_draws, sampler, scene_vars,
                   trace, callers, lock>>

\* a frame begins (lines 90-105): the counter, the rays, and one task per
\* zipped pair; rad[i] is 1 when per_pixel returns SKY_COLOR for ray i and 0
\* when it returns black
ParFrame ==
    LET n_rays == dirs_len(get_ray_directions(CameraSelf))
        m == zipped(Self, n_rays)
    IN  /\ par.pc = "loop"
        /\ par.frames_left > 0
        /\ SetRenderer([Self EXCEPT !.frame_count = F32Inc(frame_count),
                                    !.image_data = VecResize(image_data, image_len(Self), U32Zero)])
        /\ SetCamera(map_ray_directions(CameraSelf))
        /\ \E rad \in [1..m -> 0..1] :
              par' = [par EXCEPT !.pc = "accumulate", !.frames_left = @ - 1,
                                 !.n_rays = n_rays,
                                 !.tasks = [i \in 1..m |-> Task(zip_slot(i), rad[i])],
                                 !.sky = [i \in DOMAIN par.sky |->
                                            par.sky[i] + (IF i <= m THEN rad[i] ELSE 0)]]
        /\ UNCHANGED <<op, frames_rendered, jitter_draws, sampler, scene_vars, trace, callers, lock>>

\* task i of `*acc += ctx.per_pixel(ray)` (line 106) reads its slot
TaskLoad(i) ==
    /\ par.pc = "accumulate"
    /\ par.tasks[i].pc = "load"
    /\ par' = [par EXCEPT !.tasks[i].pc = "store",
                          !.tasks[i].local = accumulation[par.tasks[i].slot]]
    /\ UNCHANGED <<renderer_vars, camera_vars, op, frames_rendered, jitter_draws, sampler,
                   scene_vars, trace, callers, lock>>

\* task i of line 106 writes the sum to its slot
TaskStore(i) ==
    /\ par.pc = "accumulate"
    /\ par.tasks[i].pc = "store"
    /\ accumulation' = [accumulation EXCEPT ![par.tasks[i].slot] =
                            AddSky(par.tasks[i].local, par.tasks[i].add)]
    /\ par' = [par EXCEPT !.tasks[i].pc = "done"]
    /\ UNCHANGED <<image_data, frame_count, width, height, use_accumulation, pool,
                   camera_vars, op, frames_rendered, jitter_draws, sampler, scene_vars, trace,
                   callers, lock>>

\* the tasks of a phase have all ended
Joined == \A i \in DOMAIN par.tasks : par.tasks[i].pc = "done"

\* pool.install returns (line 108): the frame is over
ParJoin ==
    /\ par.pc = "accumulate"
    /\ Joined
    /\ par' = [par EXCEPT !.pc = "loop", !.tasks = <<>>]
    /\ UNCHANGED <<renderer_vars, camera_vars, op, frames_rendered, jitter_draws, sampler,
                   scene_vars, trace, callers, lock>>

\* the averaging begins (lines 111-115): one task per zipped pair of an
\* accumulation slot and an output slot
ParAverage ==
    /\ par.pc = "loop"
    /\ par.frames_left = 0
    /\ par' = [par EXCEPT !.pc = "average", !.frame_count = frame_count,
                          !.tasks = [i \in 1..Min(Len(accumulation), Len(image_data)) |->
                                        Task(zip_slot(i), 0)]]
    /\ UNCHANGED <<renderer_vars, camera_vars, op, frames_rendered, jitter_draws, sampler,
                   scene_vars, trace, callers, lock>>

\* task i of `*output = color_rgb(*acc / frame_count)` (line 116)
TaskAverage(i) ==
    /\ par.pc = "average"
    /\ par.tasks[i].pc = "load"
    /\ image_data' = [image_data EXCEPT ![par.tasks[i].slot] =
                          color_rgb(VecDiv(accumulation[par.tasks[i].slot], par.frame_count))]
    /\ par' = [par EXCEPT !.tasks[i].pc = "done"]
    /\ UNCHANGED <<accumulation, frame_count, width, height, use_accumulation, pool,
                   camera_vars, op, frames_rendered, jitter_draws, sampler, scene_vars, trace,
                   callers, lock>>

\* render_accumulate returns (line 120)
ParReturn ==
    /\ par.pc = "average"
    /\ Joined
    /\ par' = ParIdle
    /\ op' = Call("render_accumulate", <<par.frames>>)
    /\ frames_rendered' = FramesAfter(par.frames)
    /\ UNCHANGED <<renderer_vars, camera_vars, jitter_draws, sampler, scene_vars, trace,
                   callers, lock>>

\* What a caller of the renderer and the tasks of its pool do
ParNext ==
    \/ \E frames \in 0..MaxFrames : ParBegin(frames)
    \/ ParFrame
    \/ \E i \in DOMAIN par.tasks : TaskLoad(i)
    \/ \E i \in DOMAIN par.tasks : TaskStore(i)
    \/ ParJoin
    \/ ParAverage
    \/ \E i \in DOMAIN par.tasks : TaskAverage(i)
    \/ ParReturn
    \/ par.pc = "idle" /\ \E b \in BOOLEAN : SetUseAccumulation(b)

ParSpec == Init /\ [][ParNext]_vars

(* The threads that call get_ray_directions *)

\* thread t calls camera.get_ray_directions()
CallGet(t) ==
    /\ callers[t].pc = "idle"
    /\ callers' = [callers EXCEPT ![t] = [CallerIdle EXCEPT !.pc = "read"]]
    /\ UNCHANGED <<renderer_vars, camera_vars, op, frames_rendered, jitter_draws, sampler,
                   scene_vars, trace, par, lock>>

\* self.cached_directions.read() is granted (lines 130 and 134)
AcquireRead(t) ==
    /\ callers[t].pc \in {"read", "reread"}
    /\ can_read(lock)
    /\ lock' = [lock EXCEPT !.readers = @ \cup {t}]
    /\ callers' = [callers EXCEPT ![t].pc = IF @ = "read" THEN "check" ELSE "map"]
    /\ UNCHANGED <<renderer_vars, camera_vars, op, frames_rendered, jitter_draws, sampler,
                   scene_vars, trace, par>>

\* if dirs.is_none() { drop(dirs); ... } (lines 131-132)
CheckCache(t) ==
    /\ callers[t].pc = "check"
    /\ IF cached_directions = None
       THEN /\ lock' = [lock EXCEPT !.readers = @ \ {t}]
            /\ callers' = [callers EXCEPT ![t].pc = "compute"]
       ELSE /\ lock' = lock
            /\ callers' = [callers EXCEPT ![t].pc = "map"]
    /\ UNCHANGED <<renderer_vars, camera_vars, op, frames_rendered, jitter_draws, sampler,
                   scene_vars, trace, par>>

\* compute_ray_directions fills its own array (lines 145-173)
ComputeArray(t) ==
    /\ callers[t].pc = "compute"
    /\ callers' = [callers EXCEPT ![t].pc = "write", ![t].computed = TRUE,
                                  ![t].local = compute_ray_directions(CameraSelf).cached_directions]
    /\ UNCHANGED <<renderer_vars, camera_vars, op, frames_rendered, jitter_draws, sampler,
                   scene_vars, trace, par, lock>>

\* self.cached_directions.write() is granted (line 175) and the assignment
\* of line 176 begins
AcquireWrite(t) ==
    /\ callers[t].pc = "write"
    /\ can_write(lock)
    /\ lock' = [lock EXCEPT !.writer = t]
    /\ cached_directions' = Torn
    /\ callers' = [callers EXCEPT ![t].pc = "store"]
    /\ UNCHANGED <<renderer_vars, position, look_direction, right_direction,
                   up_direction, vertical_fov, camera_width, camera_height, look_clip,
                   op, frames_rendered, jitter_draws, sampler, scene_vars, trace, par>>

\* the assignment of line 176 ends and the write guard is dropped
StoreArray(t) ==
    /\ callers[t].pc = "store"
    /\ cached_directions' = callers[t].local
    /\ lock' = [lock EXCEPT !.writer = 0]
    /\ callers' = [callers EXCEPT ![t].pc = "reread"]
    /\ UNCHANGED <<renderer_vars, position, look_direction, right_direction,
                   up_direction, vertical_fov, camera_width, camera_height, look_clip,
                   op, frames_rendered, jitter_draws, sampler, scene_vars, trace, par>>

\* RwLockReadGuard::map(dirs, f) with f = |d| d.as_ref().unwrap().as_slice()
\* (lines 117 and 136): the caller gets the array behind the guard, or the
\* unwrap panics and the guard is dropped
MapGuard(t) ==
    /\ callers[t].pc = "map"
    /\ IF cached_directions = None
       THEN /\ callers' = [callers EXCEPT ![t].pc = "panicked"]
            /\ lock' = [lock EXCEPT !.readers = @ \ {t}]
       ELSE /\ callers' = [callers EXCEPT ![t].pc = "returned",
                                          ![t].result = cached_directions]
            /\ lock' = lock
    /\ UNCHANGED <<renderer_vars, camera_vars, op, frames_rendered, jitter_draws, sampler,
                   scene_vars, trace, par>>

\* the caller drops the guard it was returned
DropGuard(t) ==
    /\ callers[t].pc = "returned"
    /\ lock' = [lock EXCEPT !.readers = @ \ {t}]
    /\ callers' = [callers EXCEPT ![t].pc = "idle", ![t].result = None, ![t].local = None]
    /\ UNCHANGED <<renderer_vars, camera_vars, op, frames_rendered, jitter_draws, sampler,
                   scene_vars, trace, par>>

\* no thread is in a call or holds a guard: a mutator, which takes
\* &mut self, can run
NoCaller == \A t \in Threads : callers[t].pc = "idle"

\* What the threads sharing a camera do
CacheNext ==
    \/ \E t \in Threads : CallGet(t)
    \/ \E t \in Threads : AcquireRead(t)
    \/ \E t \in Threads : CheckCache(t)
    \/ \E t \in Threads : ComputeArray(t)
    \/ \E t \in Threads : AcquireWrite(t)
    \/ \E t \in Threads : StoreArray(t)
    \/ \E t \in Threads : MapGuard(t)
    \/ \E t \in Threads : DropGuard(t)
    \/ NoCaller /\ \E fov \in FovArgs : SetVerticalFov(fov)
    \/ NoCaller /\ \E d \in SizeArgs : SetSize(d[1], d[2])

CacheSpec == TraceInit /\ [][CacheNext]_vars

----------------------------------------------------------------------------
(* Claims about the Renderer, checked under Spec *)

RenderNames == {"render", "render_accumulate"}

\* C1: in every call of render_accumulate the frame counter is at least 1
\* when the accumulated values are divided by it. The divisor is the counter
\* as the frames left it (line 111), which is the counter on return.
C1_DivisorAtLeastOne ==
    op.name \in RenderNames => frame_count >= 1

\* C2: in every reachable state the accumulation buffer and the output
\* buffer both have length width * height.
C2_BuffersMatchDimensions ==
    /\ Len(accumulation) = width * height
    /\ Len(image_data) = width * height

\* C2, amended: the accumulation buffer always has length width * height; the
\* output buffer has that length or is still empty, as Renderer::new leaves
\* it, and has that length whenever render or render_accumulate returns.
C2_BuffersMatchOnceRendered ==
    /\ Len(accumulation) = width * height
    /\ Len(image_data) \in {0, width * height}
    /\ op.name \in RenderNames => Len(image_data) = width * height

\* a resize to another size after a render: both buffers are re-allocated
C2_Witness ==
    /\ op.name = "resize"
    /\ cached_directions # None
    /\ Len(image_data) = width * height
    /\ Len(accumulation) = width * height
    /\ image_data[1] = U32Zero

\* C3: with accumulation enabled the frame counter equals the number of
\* frames rendered since the accumulation was last reset: render_accumulate
\* with n frames raises it by n, render by 1.
C3_CounterCountsFrames ==
    use_accumulation => frame_count = frames_rendered

\* C4: with accumulation disabled, render_accumulate with n frames returns
\* with the frame counter at n and with every accumulation slot holding the
\* sum of the contributions of this call alone.
C4_DisabledDiscardsHistory ==
    (op.name \in RenderNames /\ ~use_accumulation) =>
        /\ frame_count = op.args[1]
        /\ \A i \in 1..Len(accumulation) :
              accumulation[i] = IF i \in DOMAIN op.args[2]
                                THEN AddSky(ZERO, op.args[2][i])
                                ELSE ZERO

\* C5: reset_accumulation sets every accumulation slot to zero and the frame
\* counter to 0, and leaves the output buffer, the dimensions, the
\* accumulation flag and the pool as they were.
C5_ResetAccumulation ==
    [][op'.name = "reset_accumulation" =>
          /\ accumulation' = Repeat(ZERO, width * height)
          /\ frame_count' = 0
          /\ UNCHANGED <<image_data, width, height, use_accumulation, pool>>]_vars

\* a reset after a render: the counter is 0 and the rendered pixels are kept
C5_Witness ==
    /\ op.name = "reset_accumulation"
    /\ frame_count = 0
    /\ Len(image_data) = width * height
    /\ \E i \in 1..Len(image_data) : image_data[i] # U32(0, 0, 0, 255)
    /\ \A i \in 1..Len(image_data) : image_data[i] # U32Zero

\* C6: resize(w, h) to other dimensions leaves the frame counter at 0, the
\* accumulation buffer all zero with length w * h and the output buffer with
\* length w * h, so nothing accumulated at the old size is left to contribute.
C6_ResizeResets ==
    [][(op'.name = "resize" /\ op'.args # <<width, height>>) =>
          /\ <<width', height'>> = op'.args
          /\ frame_count' = 0
          /\ accumulation' = Repeat(ZERO, op'.args[1] * op'.args[2])
          /\ Len(image_data') = op'.args[1] * op'.args[2]]_vars

\* a resize that took effect (the output buffer is blank) after a render
\* with frames (the camera has computed its directions)
C6_Witness ==
    /\ op.name = "resize"
    /\ cached_directions # None
    /\ frame_count = 0
    /\ width * height = MaxPixels
    /\ \A i \in 1..Len(image_data) : image_data[i] = U32Zero
    /\ Len(image_data) = MaxPixels

\* C14: when building the worker pool fails in set_num_threads, the failure
\* comes back to the caller as an error value, the call does not panic, and
\* the renderer is left as it was.
C14_PoolFailureIsRecoverable ==
    [][(op'.name = "set_num_threads" /\ ~op'.args[2])
       => (op'.ret = "error" /\ UNCHANGED renderer_vars)]_vars

----------------------------------------------------------------------------
(* Claims about the Camera, checked under CameraSpec *)

\* C7: each mutator that changes the position, the look direction, the
\* vertical fov or the size leaves the cached directions empty.
C7_MutatorsInvalidateCache ==
    [][(\/ position' # position
        \/ look_direction' # look_direction
        \/ vertical_fov' # vertical_fov
        \/ <<camera_width', camera_height'>> # <<camera_width, camera_height>>)
       => cached_directions' = None]_vars

\* the look directions that cannot be normalized: of length zero, or with a
\* NaN or an infinite component
NonNormalizable == {a \in LookArgs : a.nonfinite # "no" \/ a.v = <<0, 0, 0>>}

\* C8: set_look_direction with a vector that cannot be normalized changes
\* nothing of the camera.
C8_BadLookDirectionIsNoOp ==
    [][(op'.name = "set_look_direction" /\ op'.args[1] \in NonNormalizable)
       => UNCHANGED camera_vars]_vars

\* a zero look direction was given to a camera that had turned, had another
\* fov and had its directions cached
C8_Witness ==
    /\ op.name = "set_look_direction"
    /\ op.args[1] = F32Vec(<<0, 0, 0>>, "no")
    /\ cached_directions # None
    /\ look_direction # default.look_direction
    /\ vertical_fov # default.vertical_fov

\* C9: after every mutation the look, right and up directions are mutually
\* orthogonal unit vectors, of the handedness Camera::default gives them
\* (right x up = -look).
C9_OrthonormalBasis ==
    /\ Dot(look_direction, look_direction) = 1
    /\ Dot(right_direction, right_direction) = 1
    /\ Dot(up_direction, up_direction) = 1
    /\ Dot(look_direction, right_direction) = 0
    /\ Dot(look_direction, up_direction) = 0
    /\ Dot(right_direction, up_direction) = 0
    /\ Cross(right_direction, up_direction) = Neg(look_direction)

\* C10: every call of get_ray_directions draws exactly one sample from the
\* camera's jitter sampler.
C10_OneJitterDrawPerCall ==
    [][op'.name = "get_ray_directions" => jitter_draws' = jitter_draws + 1]_vars

----------------------------------------------------------------------------
(* Claims about the Scene, checked under SceneSpec *)

\* C11: in every Scene, from Scene::default on, material handle 0 refers to
\* the Null material, and no handle add_material has returned is 0.
C11_HandleZeroIsNull ==
    /\ Len(materials) >= 1
    /\ materials[1].kind = "Null"
    /\ \A k \in 1..Len(issued.materials) : issued.materials[k].handle # 0

\* C12: the k-th add_sphere (add_material) call returned handle k - 1, the
\* registry holds as many entries as add calls were made, and every handle
\* returned so far still refers to the entry inserted under it.
C12_StableHandles ==
    /\ Len(spheres) = Len(issued.spheres)
    /\ Len(materials) = Len(issued.materials)
    /\ \A k \in 1..Len(issued.spheres) :
          /\ issued.spheres[k].handle = k - 1
          /\ sphere(SceneSelf, issued.spheres[k].handle) = issued.spheres[k].entry
    /\ \A k \in 1..Len(issued.materials) :
          /\ issued.materials[k].handle = k - 1
          /\ material(SceneSelf, issued.materials[k].handle) = issued.materials[k].entry

\* both registries are full of entries that differ from each other, the
\* last call having returned the last handle
C12_Witness ==
    /\ Len(spheres) = MaxEntries
    /\ Len(materials) = MaxEntries
    /\ spheres[1] # spheres[MaxEntries]
    /\ materials[1] # materials[MaxEntries]
    /\ op.name \in {"add_sphere", "add_material"}
    /\ op.ret = MaxEntries - 1

----------------------------------------------------------------------------
(* Claims about the trace of a pixel, checked under TraceSpec *)

\* the ray the trace is about to give trace_ray
Querying == trace.pc = "ray_color" /\ trace.bounce_budget > 0

\* the valid indices of the material registry
MaterialIndices == 0..(Len(materials) - 1)

\* C13: when the nearest hit of a traced ray is an object whose material
\* index is not an index of the material registry, the trace panics at the
\* lookup and produces no colour.
C13_InvalidMaterialPanics ==
    [][(/\ trace.pc = "ray_color"
        /\ trace'.queries = trace.queries + 1
        /\ trace'.hit.kind = "Hit"
        /\ spheres[trace'.hit.object_index + 1].material_index \notin MaterialIndices)
       => (trace'.pc = "panicked" /\ trace'.color = trace.color)]_vars

\* a ray hit a sphere with a registered material, was reflected, and then
\* hit a sphere whose material index is past the end of the registry
C13_Witness ==
    /\ trace.pc = "panicked"
    /\ trace.queries = 2
    /\ Len(materials) >= 1
    /\ spheres[trace.hit.object_index + 1].material_index \notin MaterialIndices

\* the in-range distances the spheres of a registry yield for a ray
Candidates(ss, ray) == {candidate(ss[i], ray, look_clip)[1] :
                           i \in {j \in 1..Len(ss) : candidate(ss[j], ray, look_clip) # None}}

\* the smallest element of a non-empty set of distances
Least(S) == CHOOSE t \in S : \A u \in S : t <= u

\* the orders in which the spheres of the scene can have been registered
Orders == {f \in [1..Len(spheres) -> 1..Len(spheres)] :
              \A i, j \in 1..Len(spheres) : f[i] = f[j] => i = j}
Reordered(f) == [i \in 1..Len(spheres) |-> spheres[f[i]]]

\* C15: for the scene and the ray at hand, trace_ray reports a miss exactly
\* when no sphere yields an in-range hit, and otherwise reports the hit at
\* the smallest in-range distance, whatever the order in which the spheres
\* were registered.
C15_NearestHitAnyOrder ==
    Querying =>
        \A f \in Orders :
            LET sc == [SceneSelf EXCEPT !.spheres = Reordered(f)]
                closest == closest_from(sc.spheres, trace.ray, look_clip, 0, None)
                found == trace_ray(sc, look_clip, trace.ray)
                cands == Candidates(spheres, trace.ray)
            IN  /\ (found.kind = "Miss") <=> (cands = {})
                /\ (closest = None) <=> (cands = {})
                /\ cands # {} =>
                      /\ closest[1][2] = Least(cands)
                      /\ candidate(sc.spheres[closest[1][1] + 1], trace.ray, look_clip)
                            = Some(Least(cands))
                      /\ found.object_index = closest[1][1]
                      /\ found.world_position =
                            Add(trace.ray.origin, Scale(Least(cands), trace.ray.direction))

\* the first query of a trace found the second sphere registered, a nearer
\* one than the first
C15_Witness ==
    /\ trace.queries = 1
    /\ trace.hit.kind = "Hit"
    /\ trace.hit.object_index = 1
    /\ Len(spheres) = 2
    /\ LET ray == Ray(position, op.args[1])
       IN  /\ candidate(spheres[1], ray, look_clip) # None
           /\ candidate(spheres[2], ray, look_clip) # None
           /\ candidate(spheres[2], ray, look_clip)[1] < candidate(spheres[1], ray, look_clip)[1]

\* C16: for a sphere whose quadratic has real roots t0 <= t1, the
\* intersection rendering uses accepts t0 if it is in the clip range,
\* otherwise t1 if that is, and misses the sphere only if neither is.
C16_LargerRootIsTried ==
    Querying =>
        \A i \in 1..Len(spheres) :
            LET q == quadratic(spheres[i], trace.ray)
                accepted == candidate(spheres[i], trace.ray, look_clip)
            IN  q.discrim >= 0 =>
                    accepted = IF contains(look_clip, root0(q)) THEN Some(root0(q))
                               ELSE IF contains(look_clip, root1(q)) THEN Some(root1(q))
                               ELSE None

\* C17: the trace of a pixel makes at most 16 nearest-hit queries, and a ray
\* that hit on all 16 of them contributes black.
C17_BudgetBoundsTrace ==
    /\ trace.queries <= BOUNCE_BUDGET
    /\ trace.pc = "ray_color" => trace.queries + trace.bounce_budget = BOUNCE_BUDGET
    /\ (trace.pc = "done" /\ trace.hit.kind = "Hit") =>
          /\ trace.queries = BOUNCE_BUDGET
          /\ trace.color = ZERO

\* a trace ended after 16 hits on spheres none of which absorbs
C17_Witness ==
    /\ trace.pc = "done"
    /\ trace.queries = BOUNCE_BUDGET
    /\ trace.hit.kind = "Hit"
    /\ trace.attenuation # ZERO
    /\ trace.color = ZERO

\* C18: when the material of the nearest hit returns no scatter, as Null
\* always does, the trace stops at that bounce, without another nearest-hit
\* query, and the pixel's contribution is black.
C18_NoScatterStopsTrace ==
    [][(/\ trace.pc = "ray_color"
        /\ trace'.queries = trace.queries + 1
        /\ trace'.hit.kind = "Hit"
        /\ spheres[trace'.hit.object_index + 1].material_index \in MaterialIndices
        /\ scatter(material(SceneSelf, spheres[trace'.hit.object_index + 1].material_index)) = None)
       => (trace'.pc = "done" /\ trace'.color = ZERO)]_vars

----------------------------------------------------------------------------
(* Claims about the parallel phases, checked under ParSpec *)

\* C19: in the parallel phases of render_accumulate, under every
\* interleaving of the tasks, the task of pixel i reads and writes only
\* slot i of the accumulation and of the output, no two tasks have the same
\* slot, and on return the buffers are what processing the pixels one after
\* the other gives for the same radiance values.
C19_TasksOwnTheirSlots ==
    [][/\ \A i \in DOMAIN par'.tasks :
             /\ par'.tasks[i].slot = i
             /\ \A j \in DOMAIN par'.tasks : par'.tasks[i].slot = par'.tasks[j].slot => i = j
       /\ (par.pc = "average" /\ par'.pc = "idle") =>
             /\ op' = Call("render_accumulate", <<par.frames>>)
             /\ Self' = render_accumulate(par.s0, par.n_rays, par.frames, par.sky)]_vars

\* a call of several frames on an image of several pixels returned, with
\* different sums in different slots
C19_Witness ==
    /\ par.pc = "idle"
    /\ op.name = "render_accumulate"
    /\ op.args[1] = MaxFrames
    /\ Len(accumulation) = MaxPixels
    /\ accumulation[1] # accumulation[MaxPixels]
    /\ accumulation[1] # ZERO
    /\ image_data[1] # image_data[MaxPixels]

----------------------------------------------------------------------------
(* Claims about the threads sharing a camera, checked under CacheSpec *)

\* the array get_ray_directions returns for the camera as it is
CurrentDirections == compute_ray_directions(CameraSelf).cached_directions

\* C20: when several threads call get_ray_directions on one camera while
\* the cache is empty, under every interleaving no caller's unwrap fails and
\* every caller gets the completely computed array, the same for all of
\* them, whether it recomputed it or not.
C20_CallersGetWholeArray ==
    \A t \in Threads :
        /\ callers[t].pc # "panicked"
        /\ callers[t].pc = "returned" =>
              /\ callers[t].result = CurrentDirections
              /\ dirs_len(callers[t].result[1]) = camera_width * camera_height
              /\ \A u \in Threads :
                    callers[u].pc = "returned" => callers[u].result = callers[t].result

\* before any mutator ran, every thread found the cache empty and computed
\* the array, and the last of them has been returned it
C20_Witness ==
    /\ op.name = "new"
    /\ \A t \in Threads : callers[t].computed
    /\ \E t \in Threads : callers[t].pc = "returned"
    /\ cached_directions # None

----------------------------------------------------------------------------
(* Sampler calls *)

\* the bases the model gives to the constructors: the two of the tests, and
\* 2^23, with which the dropped draws of two_d((2, 2^23)) are 2^24
BaseArgs == {2, 3, 8388608}

\* the pairs of bases given to two_d: those whose product is a u32 (and
\* below 2^25, where AsF32 is defined)
BasePairs == {p \in BaseArgs \X BaseArgs : p[1] <= 3 \/ p[2] <= 3}

SamplerCall(call, s) ==
    /\ sampler' = s
    /\ op' = call
    /\ UNCHANGED <<renderer_vars, camera_vars, frames_rendered, jitter_draws,
                   scene_vars, worker_vars>>

\* Halton::new(base), as the tests of halton.rs call it
HaltonNew(base) ==
    SamplerCall(Call("new", <<base>>),
                [kind |-> "new", gens |-> <<Halton_new(base)>>, made |-> 0,
                 returned |-> 0])

\* Halton::one_d(base)
OneD(base) ==
    SamplerCall(Call("one_d", <<base>>),
                [kind |-> "one_d", gens |-> <<one_d(base)>>, made |-> base,
                 returned |-> 0])

\* Halton::two_d((base1, base2))
TwoD(base1, base2) ==
    SamplerCall(Call("two_d", <<base1, base2>>),
                [kind |-> "two_d", gens |-> two_d(base1, base2),
                 made |-> base1 * base2, returned |-> 0])

\* sampler.next(): Halton2::next on the sampler of two_d, Halton::next on
\* the others. The history keeps which call of next() on the generators this
\* was since Halton::new, which call of the caller, and the value returned.
SamplerNext ==
    /\ sampler.kind # "none"
    /\ sampler.returned < MaxDraws
    /\ LET r == IF sampler.kind = "two_d"
                THEN next2(sampler.gens)
                ELSE [self |-> <<next(sampler.gens[1]).self>>,
                      ret |-> next(sampler.gens[1]).ret]
       IN  SamplerCall(CallRet("next", <<sampler.made + 1, sampler.returned + 1>>, r.ret),
                       [sampler EXCEPT !.gens = r.self,
                                       !.made = sampler.made + 1,
                                       !.returned = sampler.returned + 1])

\* What the holder of a sampler does
HaltonNext ==
    \/ \E base \in BaseArgs : HaltonNew(base)
    \/ \E base \in BaseArgs : OneD(base)
    \/ \E p \in BasePairs : TwoD(p[1], p[2])
    \/ SamplerNext

HaltonSpec == Init /\ [][HaltonNext]_vars

----------------------------------------------------------------------------
(* Claims about the sampler, checked under HaltonSpec *)

\* the radical inverse of k in base b: the digits of k in base b, lowest
\* first, digit j being worth d_j / b^(j+1); by digits, as the values of
\* Halton::next are kept
RECURSIVE RadicalInverse(_, _)
RadicalInverse(k, b) ==
    IF k = 0 THEN <<>> ELSE <<k % b>> \o RadicalInverse(k \div b, b)

\* the quotient a short sequence of digits in base b is worth
RECURSIVE AsQuot(_, _)
AsQuot(r, b) ==
    IF r = <<>> THEN Quot(0, 1)
    ELSE LET q == AsQuot(Tail(r), b) IN Quot(Head(r) * q.d + q.n, b * q.d)

\* two quotients of the same value
SameValue(p, q) == p.n * q.d = q.n * p.d

\* the golden values of the tests wikipedia and base_three
Golden(b) ==
    IF b = 2
    THEN <<Quot(1, 2), Quot(1, 4), Quot(3, 4), Quot(1, 8), Quot(5, 8), Quot(3, 8),
           Quot(7, 8), Quot(1, 16), Quot(9, 16)>>
    ELSE IF b = 3
    THEN <<Quot(1, 3), Quot(2, 3), Quot(1, 9), Quot(4, 9), Quot(7, 9), Quot(2, 9),
           Quot(5, 9), Quot(8, 9)>>
    ELSE <<>>

\* the values a call of next() returned, one per generator of the sampler
Returned == IF sampler.kind = "two_d" THEN op.ret ELSE <<op.ret>>

\* C21: the k-th value a generator of base b produces since Halton::new is
\* the radical inverse of k in base b, and a new generator of base 2 or 3
\* produces the golden values of the tests.
C21_NextIsRadicalInverse ==
    op.name = "next" =>
       /\ \A j \in 1..Len(sampler.gens) :
             Returned[j] = RadicalInverse(op.args[1], sampler.gens[j].base)
       /\ sampler.kind = "new" /\ op.args[1] <= Len(Golden(sampler.gens[1].base))
             => SameValue(AsQuot(op.ret, sampler.gens[1].base),
                          Golden(sampler.gens[1].base)[op.args[1]])

\* C22: the n-th point the sampler of two_d((b1, b2)) returns is the radical
\* inverse of b1 * b2 + n in base b1 and in base b2, its two counters are
\* always equal, and the n-th value the sampler of one_d(b) returns is the
\* radical inverse of b + n in base b.
C22_WarmUpIsDropped ==
    /\ sampler.kind = "two_d" => sampler.gens[1].index = sampler.gens[2].index
    /\ op.name = "next" /\ sampler.kind = "two_d" =>
          LET b1 == sampler.gens[1].base
              b2 == sampler.gens[2].base
              n == op.args[2]
          IN  op.ret = <<RadicalInverse(b1 * b2 + n, b1), RadicalInverse(b1 * b2 + n, b2)>>
    /\ op.name = "next" /\ sampler.kind = "one_d" =>
          LET b == sampler.gens[1].base
              n == op.args[2]
          IN  op.ret = RadicalInverse(b + n, b)

----------------------------------------------------------------------------
(* The averaging of a render, for any sums *)

\* the sums a channel of an accumulation slot holds when the frames of a
\* call are done, in tenths: per_pixel returns SKY_COLOR times the albedos
\* of the spheres hit, and an albedo is any Vec3 its caller sets, so the
\* sum of a channel is any number; each channel is given a sum below 0, 0,
\* sums below the frame count, the frame count and sums above it
SumArgs == {ZERO, SKY_COLOR, <<10, 20, 30>>, <<25, -5, 4>>, <<4, 25, -5>>, <<-5, 4, 25>>}

\* the frame_count at line 111: 0 (no frame rendered since the reset), or
\* the frames rendered
CountArgs == 0..MaxFrames

\* A Renderer where the frames of a render_accumulate call are done (line
\* 111): the buffers have the length of the image (lines 86, 87, 101), the
\* accumulation holds any sums and frame_count any count
PackInit ==
    /\ \E d \in Dims :
          LET s == new(d[1], d[2])
          IN  \E sums \in [1..image_len(s) -> SumArgs],
                 fc \in CountArgs :
                 /\ image_data = Repeat(U32Zero, image_len(s))
                 /\ accumulation = sums
                 /\ frame_count = fc
                 /\ width = s.width
                 /\ height = s.height
                 /\ use_accumulation = s.use_accumulation
                 /\ pool = s.pool
                 /\ op = Call("frames", <<>>)
    /\ OthersInit

\* the rest of the call: the averaging (lines 111-118), and the return of
\* the output buffer (line 120)
Average ==
    /\ op.name = "frames"
    /\ SetRenderer(render_average(Self))
    /\ op' = Call("render_accumulate", <<>>)
    /\ UNCHANGED <<camera_vars, frames_rendered, jitter_draws, sampler, scene_vars,
                   worker_vars>>

PackNext == Average

PackSpec == PackInit /\ [][PackNext]_vars

----------------------------------------------------------------------------
(* Claims about the pixels, checked under PackSpec *)

\* byte v is what c = n / d gives when it is clamped to [0, 1], multiplied
\* by 255 and truncated (d > 0)
Truncated(v, n, d) ==
    IF n <= 0 THEN v = 0
    ELSE IF n >= d THEN v = 255
    ELSE v * d <= 255 * n /\ 255 * n < (v + 1) * d

\* C23: every word of the buffer render_accumulate returns has alpha 255 and
\* three channels in 0..255, each the average of its channel of the slot
\* clamped to [0, 1], multiplied by 255 and truncated, whatever the sums and
\* the frame count are.
C23_PixelsArePacked ==
    op.name = "render_accumulate" =>
       /\ Len(image_data) = width * height
       /\ \A i \in 1..Len(image_data) :
             /\ image_data[i][4] = 255
             /\ \A j \in 1..3 :
                   /\ image_data[i][j] \in 0..255
                   /\ frame_count > 0 =>
                         Truncated(image_data[i][j], accumulation[i][j], 10 * frame_count)

\* a buffer was returned whose first slot averages above 1 in its first
\* channel, below 0 in the second and within [0, 1] in the third
C23_Witness ==
    /\ op.name = "render_accumulate"
    /\ frame_count > 0
    /\ accumulation[1][1] > 10 * frame_count
    /\ accumulation[1][2] < 0
    /\ accumulation[1][3] > 0 /\ accumulation[1][3] < 10 * frame_count
    /\ image_data[1] = U32(255, 0, (255 * accumulation[1][3]) \div (10 * frame_count), 255)

----------------------------------------------------------------------------
(* The rays of a frame *)

\* the pixels in the order compute_ray_directions pushes their directions
\* (camera.rs:162-173): the rows from y on, each row from x = 0 on
RECURSIVE push_rows(_, _, _)
push_rows(w, h, y) ==
    IF y >= h THEN <<>>
    ELSE [x1 \in 1..w |-> <<x1 - 1, y>>] \o push_rows(w, h, y + 1)

pixel_order_reversed(w, h) == [k \in 1..(w * h) |-> push_rows(w, h, 0)[w * h + 1 - k]]
pixel_order(w, h) == push_rows(w, h, 0)

\* element k (from 1) of an array of directions d: the direction of lines
\* 167-171, kept as what it is computed from, its pixel and the inputs of d
direction_at(d, k) ==
    [pixel |-> pixel_order(d.width, d.height)[k], look |-> d.look, fov |-> d.fov,
     size |-> <<d.width, d.height>>]

\* the rays of a frame (renderer.rs:92-99): one per direction of the camera,
\* from the camera's position
frame_rays(c) ==
    LET d == get_ray_directions(c)
    IN  [k \in 1..dirs_len(d) |-> Ray(c.position, direction_at(d, k))]

\* the pairs the for_each of a frame is run on (lines 103-105): a slot of the
\* accumulation and the ray zipped with it
frame_pairs(s, rays) ==
    [k \in 1..Min(Len(s.accumulation), Len(rays)) |-> [slot |-> zip_slot(k), ray |-> rays[k]]]

\* renderer.render_accumulate(scene, camera, frames) on a camera of a small
\* image; the history keeps, for every frame, the pairs of a slot and the ray
\* whose radiance was added to it
RenderLogged(frames) ==
    LET rays == frame_rays(CameraSelf)
        pairs == frame_pairs(render_prepare(Self), rays)
    IN  /\ camera_width * camera_height <= MaxPixels
        /\ FramesAfter(frames) <= MaxFrames
        /\ \E sky \in SkyChoices(Len(pairs), frames) :
              /\ SetRenderer(render_accumulate(Self, Len(rays), frames, sky))
              /\ op' = CallRet("render_accumulate", <<frames, sky>>, [f \in 1..frames |-> pairs])
        /\ SetCamera(IF frames > 0 THEN map_ray_directions(CameraSelf) ELSE CameraSelf)
        /\ frames_rendered' = FramesAfter(frames)
        /\ UNCHANGED <<jitter_draws, sampler, scene_vars, worker_vars>>

\* What an application does with its renderer and its camera: App::render
\* gives both the size of the viewport before it renders (main.rs:282-284)
FrameNext ==
    \/ \E d \in Dims : Resize(d[1], d[2])
    \/ \E d \in Dims : SetSize(d[1], d[2])
    \/ \E p \in PositionArgs : SetPosition(p)
    \/ \E b \in BOOLEAN : SetUseAccumulation(b)
    \/ \E frames \in 0..MaxFrames : RenderLogged(frames)

FrameSpec == Init /\ [][FrameNext]_vars

----------------------------------------------------------------------------
(* Claims about the rays of a frame, checked under FrameSpec *)

\* the pairs of a frame that name slot i
PairsOf(pairs, i) == {k \in DOMAIN pairs : pairs[k].slot = i}

\* C24: when the camera's image size is the renderer's, every frame of a
\* render_accumulate call adds one radiance to every one of the width x height
\* slots and no second one: slot i (from 0) gets the radiance of the ray from
\* the camera's position along the direction of the pixel (x, y) with
\* x + y * width = i, and after the call the slot holds what it held when the
\* frames began plus the radiances of the call.
C24_OneContributionPerSlot ==
    [][(op'.name = "render_accumulate" /\ camera_width = width /\ camera_height = height)
       => /\ Len(accumulation') = width * height
          /\ \A f \in DOMAIN op'.ret : \A i \in 1..(width * height) :
                /\ Cardinality(PairsOf(op'.ret[f], i)) = 1
                /\ \A k \in PairsOf(op'.ret[f], i) :
                      LET ray == op'.ret[f][k].ray
                      IN  /\ ray.origin = position
                          /\ ray.direction.pixel[1] + ray.direction.pixel[2] * width = i - 1
                          /\ ray.direction.pixel[1] \in 0..(width - 1)
                /\ accumulation'[i] =
                      AddSky(IF use_accumulation THEN accumulation[i] ELSE ZERO,
                             op'.args[2][i])
          /\ DOMAIN op'.ret = 1..op'.args[1]]_vars

\* a call of two frames on an image of two pixels with a camera of the same
\* size has returned, the second slot having got the sky once
C24_Witness ==
    /\ op.name = "render_accumulate"
    /\ op.args[1] = 2
    /\ camera_width = width /\ camera_height = height
    /\ width * height = 2
    /\ op.args[2][2] = 1
    /\ accumulation[2] = SKY_COLOR
    /\ Len(op.ret[2]) = 2

----------------------------------------------------------------------------
(* The camera's directions and what they are computed from *)

\* What a caller does to the camera's orientation, fov and size, and with
\* its directions; relative_move is left to CameraSpec
DirectionsNext ==
    \/ \E p \in PositionArgs : SetPosition(p)
    \/ \E pitch \in TurnArgs, yaw \in TurnArgs : RelativeTurn(pitch, yaw)
    \/ \E look \in LookArgs : SetLookDirection(look)
    \/ \E fov \in FovArgs : SetVerticalFov(fov)
    \/ \E d \in SizeArgs : SetSize(d[1], d[2])
    \/ GetRayDirections

DirectionsSpec == CameraInit /\ [][DirectionsNext]_vars

----------------------------------------------------------------------------
(* A claim about the cache of the Camera, checked under DirectionsSpec *)

\* an array of directions is a snapshot of the camera as it is now: it was
\* computed from the current look direction, vertical fov and size
Snapshot(d) ==
    /\ d.look = look_direction
    /\ d.fov = vertical_fov
    /\ d.width = camera_width
    /\ d.height = camera_height

\* C25: the cache is empty or holds an array computed from the camera's
\* current look direction, vertical fov and size, and the array a call of
\* get_ray_directions returns is such an array, of length width x height.
C25_CacheIsNeverStale ==
    /\ cached_directions # None => Snapshot(cached_directions[1])
    /\ op.name = "get_ray_directions" =>
          /\ Snapshot(op.ret)
          /\ dirs_len(op.ret) = camera_width * camera_height

\* get_ray_directions has returned an array for a camera whose look
\* direction, vertical fov and size are no longer those of Camera::default
C25_Witness ==
    /\ op.name = "get_ray_directions"
    /\ look_direction # default.look_direction
    /\ vertical_fov # default.vertical_fov
    /\ <<camera_width, camera_height>> # <<default.width, default.height>>
    /\ cached_directions = Some(op.ret)
    /\ op.ret.look = look_direction

====
